---- MODULE Spec2Model ----
(***************************************************************************)
(* Gesture-controlled particle system: the detection loop and gesture      *)
(* classifier of App.tsx, the HandState handed to ParticleSystem through a *)
(* React render, and the per-tick blending of ParticleSystem's useFrame.   *)
(*                                                                         *)
(* Numbers are fixed point: one unit is 1/1000 (landmark coordinates,      *)
(* particle coordinates, openness, seconds).  A store into the particle    *)
(* buffer, a Math.sqrt and a rotation update round to the nearest unit,    *)
(* as the Float32Array store and the double arithmetic round to their      *)
(* nearest representable value.                                            *)
(***************************************************************************)
EXTENDS Integers, Sequences, FiniteSets

VARIABLES
    mediaPipe,          \* initMediaPipe: "pending", "ready" (handLandmarkerRef set) or "failed"
    loading,            \* the loading state of App
    effectLoading,      \* the value of loading the detection effect last ran with
    videoReady,         \* webcamRef.current.video.readyState === 4
    animationFrameId,   \* whether a detect callback is registered with requestAnimationFrame
    results,            \* results.landmarks of the last detectForVideo call: <<>> or <<landmarks>>
    handState,          \* the handState state of App, every queued update applied
    renderPending,      \* a state update is queued and React has not rendered it yet
    propState,          \* the handState prop captured by the useFrame closure of the last render
    pointsRef,          \* whether pointsRef.current is attached (non-null)
    targets,            \* the formation table: sphere, char1 .. char4
    positions,          \* the particle buffer (the position attribute's array)
    rotation,           \* pointsRef.current.rotation: x and y
    time,               \* state.clock.getElapsedTime() as read by the last tick
    targetPositions,    \* the formation the last blending tick selected ("none" before)
    ticks,              \* useFrame invocations so far
    skipped             \* those of them that returned at the pointsRef guard

detectVars == <<mediaPipe, loading, effectLoading, videoReady, animationFrameId,
                results, handState, renderPending>>

renderVars == <<pointsRef, targets, positions, rotation, time, targetPositions,
                ticks, skipped>>

vars == <<mediaPipe, loading, effectLoading, videoReady, animationFrameId,
          results, handState, renderPending, propState,
          pointsRef, targets, positions, rotation, time, targetPositions,
          ticks, skipped>>

----------------------------------------------------------------------------
(* types.ts: GestureType *)
NONE == 0
ONE == 1
TWO == 2
THREE == 3
FOUR == 4

(* One unit of the fixed-point scale per 1.0 of the program's numbers. *)
Scale == 10 * 10 * 10

Abs(n) == IF n < 0 THEN -n ELSE n

(* n / d rounded to the nearest integer, ties to the even one (d > 0). *)
RoundDiv(n, d) ==
    LET q == n \div d
        r == n % d
    IN  IF 2 * r < d THEN q
        ELSE IF 2 * r > d THEN q + 1
        ELSE IF q % 2 = 0 THEN q ELSE q + 1

(* Math.pow(v, 2) *)
Pow2(v) == v * v

RECURSIVE SqrtSearch(_, _, _)
SqrtSearch(n, lo, hi) ==
    IF lo >= hi THEN lo
    ELSE LET mid == (lo + hi) \div 2
         IN  IF 4 * n <= Pow2(2 * mid + 1)
             THEN SqrtSearch(n, lo, mid)
             ELSE SqrtSearch(n, mid + 1, hi)

(* Math.sqrt of a sum of squares of scaled values, rounded to the nearest unit. *)
Sqrt(n) == SqrtSearch(n, 0, 2 * Scale)

----------------------------------------------------------------------------
(* Landmark sets.  A landmark list is a function on 0 .. length-1 whose    *)
(* values are points or Undefined (a hole of the array).                   *)

Undefined == [undefined |-> TRUE]

Pt(px, py) == [x |-> px, y |-> py]

(* landmarks[i]: undefined past the end of the array *)
At(landmarks, i) == IF i \in DOMAIN landmarks THEN landmarks[i] ELSE Undefined

(* The indices analyzeGesture dereferences before it calls setHandState. *)
ReadIndices == {0, 3, 4, 6, 8, 10, 12, 14, 16, 18, 20}

(* Reading .x or .y of undefined raises a TypeError. *)
Throws(landmarks) == \E i \in ReadIndices : At(landmarks, i) = Undefined

IsFingerUpLoose(landmarks, tipIdx, pipIdx) ==
    landmarks[tipIdx].y <= landmarks[pipIdx].y

IsFingerUp(landmarks, tipIdx, pipIdx) ==
    landmarks[tipIdx].y < landmarks[pipIdx].y

FingersCount(landmarks) ==
      (IF IsFingerUp(landmarks, 8, 6) THEN 1 ELSE 0)
    + (IF IsFingerUp(landmarks, 12, 10) THEN 1 ELSE 0)
    + (IF IsFingerUp(landmarks, 16, 14) THEN 1 ELSE 0)
    + (IF IsFingerUp(landmarks, 20, 18) THEN 1 ELSE 0)

GestureOf(fingersCount) ==
    IF fingersCount = 1 THEN ONE
    ELSE IF fingersCount = 2 THEN TWO
    ELSE IF fingersCount = 3 THEN THREE
    ELSE IF fingersCount = 4 THEN FOUR
    ELSE NONE

Distance(landmarks) ==
    Sqrt(Pow2(landmarks[4].x - landmarks[8].x) + Pow2(landmarks[4].y - landmarks[8].y))

Min(a, b) == IF a < b THEN a ELSE b
Max(a, b) == IF a > b THEN a ELSE b

OpennessUnit(distance) == Min(Max((distance - 50) * 4, 0), 1000)

(* Math.min(Math.max((distance - 0.05) * 4, 0), 1.5) *)
Openness(distance) == Min(Max((distance - 50) * 4, 0), 1500)

(* (wrist.x - 0.5) * -2 and (wrist.y - 0.5) * -2 *)
WristPosition(landmarks) ==
    [x |-> (landmarks[0].x - 500) * (-2), y |-> (landmarks[0].y - 500) * (-2)]

(* The object analyzeGesture passes to setHandState. *)
AnalyzeGesture(landmarks) ==
    [gesture  |-> GestureOf(FingersCount(landmarks)),
     openness |-> Openness(Distance(landmarks)),
     position |-> WristPosition(landmarks)]

NoHandReset(prev) ==
    [gesture |-> NONE, openness |-> 1000, position |-> [x |-> 0, y |-> 0]]

(* The updater of the no-hand branch: prev => ({ ...prev, gesture: NONE }) *)
NoHandUpdate(prev) == [prev EXCEPT !.gesture = NONE]

(* useState's initial value *)
InitialHandState ==
    [gesture |-> NONE, openness |-> 1000, position |-> [x |-> 0, y |-> 0]]

----------------------------------------------------------------------------
(* The frames the detector hands over. *)

(* A 21-point hand: the four finger tips at heights tips[1..4] over PIP     *)
(* joints at height 500, the thumb tip, thumb IP joint and wrist as given.  *)
Hand(tips, thumbTip, thumbIp, wrist) ==
    [i \in 0 .. 20 |->
        CASE i = 0  -> wrist
          [] i = 3  -> thumbIp
          [] i = 4  -> thumbTip
          [] i = 8  -> Pt(500, tips[1])
          [] i = 12 -> Pt(550, tips[2])
          [] i = 16 -> Pt(600, tips[3])
          [] i = 20 -> Pt(650, tips[4])
          [] OTHER  -> Pt(500, 500)]

(* The first n points of a list. *)
Truncate(landmarks, n) == [i \in 0 .. n - 1 |-> landmarks[i]]

(* A list with one more point appended. *)
Extend(landmarks) ==
    LET n == Cardinality(DOMAIN landmarks)
    IN  [i \in 0 .. n |-> IF i < n THEN landmarks[i] ELSE Pt(500, 500)]

(* A list with a hole at index k. *)
Hole(landmarks, k) == [landmarks EXCEPT ![k] = Undefined]

TipHeights == {450, 500, 550}

ThumbTips == {Pt(500, 450), Pt(540, 450), Pt(675, 450), Pt(925, 450), Pt(200, 800)}

ClassifyFrames ==
    {<< >>} \cup
    { <<Hand(tips, thumb, ip, wrist)>> :
        tips \in [1 .. 4 -> TipHeights], thumb \in ThumbTips,
        ip \in {Pt(450, 500), Pt(600, 500)},
        wrist \in {Pt(250, 750)} }

HandTwo == Hand(<<450, 450, 550, 500>>, Pt(700, 450), Pt(600, 500), Pt(250, 750))
HandOne == Hand(<<450, 500, 550, 550>>, Pt(540, 450), Pt(450, 500), Pt(600, 400))

Frames ==
    { << >>, <<HandTwo>>, <<HandOne>>,
      <<Truncate(HandTwo, 20)>>, <<Extend(HandOne)>>, <<Hole(HandTwo, 6)>> }

----------------------------------------------------------------------------
(* initMediaPipe resolves: the landmarker is stored and loading is cleared, *)
(* or the catch branch logs the error and leaves both as they were.         *)
InitMediaPipe(ok) ==
    /\ mediaPipe = "pending"
    /\ IF ok
       THEN /\ mediaPipe' = "ready"
            /\ loading' = FALSE
            /\ renderPending' = TRUE
       ELSE /\ mediaPipe' = "failed"
            /\ UNCHANGED <<loading, renderPending>>
    /\ UNCHANGED <<effectLoading, videoReady, animationFrameId, results, handState,
                   propState>>
    /\ UNCHANGED renderVars

(* The webcam video reaches readyState 4. *)
VideoReady ==
    /\ ~videoReady
    /\ videoReady' = TRUE
    /\ UNCHANGED <<mediaPipe, loading, effectLoading, animationFrameId, results,
                   handState, renderPending, propState>>
    /\ UNCHANGED renderVars

Ready == mediaPipe = "ready" /\ videoReady

(* The body of detect() for the frame the detector returns. *)
DetectBody(frame) ==
    IF Ready
    THEN /\ results' = frame
         /\ IF Len(frame) > 0
            THEN IF Throws(frame[1])
                 THEN \* the TypeError leaves detect before requestAnimationFrame
                      /\ animationFrameId' = FALSE
                      /\ UNCHANGED <<handState, renderPending>>
                 ELSE /\ handState' = AnalyzeGesture(frame[1])
                      /\ renderPending' = TRUE
                      /\ animationFrameId' = TRUE
            ELSE /\ handState' = NoHandUpdate(handState)
                 /\ renderPending' = TRUE
                 /\ animationFrameId' = TRUE
    ELSE /\ animationFrameId' = TRUE
         /\ UNCHANGED <<results, handState, renderPending>>

(* The registered detect callback runs on an animation frame. *)
Detect(frame) ==
    /\ animationFrameId
    /\ DetectBody(frame)
    /\ UNCHANGED <<mediaPipe, loading, effectLoading, videoReady, propState>>
    /\ UNCHANGED renderVars

(* The detection effect runs again once the render with the new loading    *)
(* value is committed: its cleanup cancels the registered callback and the *)
(* effect calls detect() at once.  Should that call throw, no callback is  *)
(* registered afterwards; what React does with an error thrown out of an   *)
(* effect is not followed further.                                         *)
DetectEffect(frame) ==
    /\ effectLoading # loading
    /\ ~renderPending
    /\ effectLoading' = loading
    /\ DetectBody(frame)
    /\ UNCHANGED <<mediaPipe, loading, videoReady, propState>>
    /\ UNCHANGED renderVars

RenderPropsTorn == [propState EXCEPT !.gesture = handState.gesture]

RenderProps == handState

(* React renders App: ParticleSystem receives the current handState and    *)
(* its useFrame callback is replaced by a closure over that value.         *)
Render ==
    /\ renderPending
    /\ renderPending' = FALSE
    /\ propState' = RenderProps
    /\ UNCHANGED <<mediaPipe, loading, effectLoading, videoReady, animationFrameId,
                   results, handState>>
    /\ UNCHANGED renderVars


----------------------------------------------------------------------------
(* Math.sin, Math.cos, Math.acos and Math.cbrt.  Angles are in units of    *)
(* 1/200 radian; results are in units of 1/1000, rounded to the nearest.   *)

AngleScale == 2 * 10 * 10

(* Math.PI in angle units *)
PiAngle == 628

(* sin on [0, pi]: 16 a (pi - a) / (5 pi^2 - 4 a (pi - a)) *)
SinHalfTurn(a) ==
    LET p == a * (PiAngle - a)
    IN  RoundDiv(16 * Scale * p, 5 * PiAngle * PiAngle - 4 * p)

Sin(a) ==
    LET m == a % (2 * PiAngle)
    IN  IF m <= PiAngle THEN SinHalfTurn(m) ELSE -SinHalfTurn(m - PiAngle)

Cos(a) == Sin(a + PiAngle \div 2)

RECURSIVE AcosSearch(_, _, _)
AcosSearch(v, lo, hi) ==
    IF lo >= hi THEN lo
    ELSE LET mid == (lo + hi) \div 2
         IN  IF Cos(mid) <= v
             THEN AcosSearch(v, lo, mid)
             ELSE AcosSearch(v, mid + 1, hi)

(* Math.acos of v/1000: the least angle of [0, pi] whose cosine is at most v *)
Acos(v) == AcosSearch(v, 0, PiAngle)

RECURSIVE CbrtSearch(_, _, _)
CbrtSearch(n, lo, hi) ==
    IF lo >= hi THEN lo
    ELSE LET mid == (lo + hi) \div 2
         IN  IF mid * mid * mid >= n
             THEN CbrtSearch(n, lo, mid)
             ELSE CbrtSearch(n, mid + 1, hi)

(* Math.cbrt of u/1000, in units of 1/1000 *)
Cbrt(u) == CbrtSearch(u * Scale * Scale, 0, Scale)

----------------------------------------------------------------------------
(* utils/textSampler.ts *)

(* The number of particles of the model. *)
MaxParticles == 2

PARTICLE_COUNT == MaxParticles

(* The k-th value Math.random() returns after start-up, in [0, 1000), for  *)
(* the run numbered seed.                                                   *)
Random(seed, k) == (seed * 7919 + k * 1049 + (k * k) * 331) % Scale

ZerosPerParticle(n) == [j \in 0 .. n \div 3 - 1 |-> 0]

(* new Float32Array(n) *)
Zeros(n) == [j \in 0 .. n - 1 |-> 0]

(* What the canvas holds after fillText: the white pixels of each glyph,   *)
(* as validPixels lists them (x, y, x, y, ...), for each way the drawing   *)
(* can turn out.                                                           *)
ValidPixels(canvas, glyph) ==
    IF canvas = "blank3" /\ glyph = 3 THEN << >>
    ELSE CASE glyph = 1 -> <<100, 40, 60, 100, 140, 100, 100, 160>>
           [] glyph = 2 -> <<70, 50, 130, 50, 70, 150, 130, 150>>
           [] glyph = 3 -> <<50, 100, 100, 30, 150, 170>>
           [] OTHER     -> <<40, 120, 100, 60, 160, 120, 100, 180>>

(* samplePointsFromText(text, count, size): the draws start at draw        *)
(* number base of the run.                                                 *)
SamplePointsFromText(canvas, glyph, count, seed, base) ==
    LET validPixels == ValidPixels(canvas, glyph)
        Coord(j) ==
            LET i == j \div 3
                pixelIndex ==
                    ((Random(seed, base + 2 * i) * (Len(validPixels) \div 2)) \div Scale) * 2
                px == validPixels[pixelIndex + 1]
                py == validPixels[pixelIndex + 2]
            IN  CASE j % 3 = 0 -> (px - 100) * 150
                  [] j % 3 = 1 -> -((py - 100) * 150)
                  [] OTHER     -> (2 * Random(seed, base + 2 * i + 1) - Scale)
    IN  IF canvas = "noctx" THEN Zeros(count * 3)
        ELSE IF Len(validPixels) = 0 THEN Zeros(count * 3)
        ELSE [j \in 0 .. count * 3 - 1 |-> Coord(j)]

(* generateSphereCloud(count, radius): radius in whole units. *)
GenerateSphereCloud(count, radius, seed, base) ==
    LET Coord(j) ==
            LET i == j \div 3
                r == radius * Cbrt(Random(seed, base + 3 * i))
                theta == RoundDiv(Random(seed, base + 3 * i + 1) * 2 * PiAngle, Scale)
                phi == Acos(2 * Random(seed, base + 3 * i + 2) - Scale)
                rSinPhi == RoundDiv(r * Sin(phi), Scale)
            IN  CASE j % 3 = 0 -> RoundDiv(rSinPhi * Cos(theta), Scale)
                  [] j % 3 = 1 -> RoundDiv(rSinPhi * Sin(theta), Scale)
                  [] OTHER     -> RoundDiv(r * Cos(phi), Scale)
    IN  [j \in 0 .. count * 3 - 1 |-> Coord(j)]

(* The targets table of ParticleSystem, computed once. *)
Targets(canvas, seed) ==
    [sphere |-> GenerateSphereCloud(PARTICLE_COUNT, 8, seed, 0),
     char1  |-> SamplePointsFromText(canvas, 1, PARTICLE_COUNT, seed, 3 * PARTICLE_COUNT),
     char2  |-> SamplePointsFromText(canvas, 2, PARTICLE_COUNT, seed, 5 * PARTICLE_COUNT),
     char3  |-> SamplePointsFromText(canvas, 3, PARTICLE_COUNT, seed, 7 * PARTICLE_COUNT),
     char4  |-> SamplePointsFromText(canvas, 4, PARTICLE_COUNT, seed, 9 * PARTICLE_COUNT)]

----------------------------------------------------------------------------
(* components/ParticleSystem.tsx: the useFrame callback *)

(* LERP_SPEED = 0.08, in hundredths *)
LERP_SPEED == 8

(* Targets are carried in units of 1/20000 so that the wobble term         *)
(* sin(..) * 0.05 is exact before the store into the buffer rounds.        *)
Fine == 2 * 10

SelectTargetSticky(gesture) ==
    IF gesture = NONE /\ targetPositions \in {"char1", "char2", "char3", "char4"}
    THEN targetPositions
    ELSE CASE gesture = ONE   -> "char1"
           [] gesture = TWO   -> "char2"
           [] gesture = THREE -> "char3"
           [] gesture = FOUR  -> "char4"
           [] OTHER           -> "sphere"

(* The switch on handState.gesture: the name of the formation selected. *)
SelectTarget(gesture) ==
    CASE gesture = ONE   -> "char1"
      [] gesture = TWO   -> "char2"
      [] gesture = THREE -> "char3"
      [] gesture = FOUR  -> "char4"
      [] OTHER           -> "sphere"

Formation(name) ==
    CASE name = "char1" -> targets.char1
      [] name = "char2" -> targets.char2
      [] name = "char3" -> targets.char3
      [] name = "char4" -> targets.char4
      [] OTHER          -> targets.sphere

LerpSnap(current, target) ==
    IF Abs(target - current * Fine) <= 10 * Fine
    THEN RoundDiv(target, Fine)
    ELSE RoundDiv((100 - LERP_SPEED) * current * Fine + LERP_SPEED * target, 100 * Fine)

(* current += (target - current) * LERP_SPEED, stored into the buffer:     *)
(* current in buffer units, target in 1/Fine of them.                      *)
Lerp(current, target) ==
    RoundDiv((100 - LERP_SPEED) * current * Fine + LERP_SPEED * target, 100 * Fine)

(* time * 2 + x * 0.5, as an angle *)
WobbleAngle(t, x) == RoundDiv((4 * t + x) * AngleScale, 2 * Scale)

WobbleSourceTarget(buffer, targetArray, idx) == targetArray[idx]

(* positions[idx]: the x the wobble is computed from *)
WobbleSource(buffer, targetArray, idx) == buffer[idx]

(* The adjusted target of slot i on the three axes, in 1/Fine buffer units. *)
AdjustedTarget(buffer, targetArray, signal, t, i) ==
    LET idx == i * 3
        tx == targetArray[idx]
        ty == targetArray[idx + 1]
        tz == targetArray[idx + 2]
    IN  IF signal.gesture = NONE
        THEN LET \* expansionFactor = 0.5 + openness * 1.5, in 1/2000
                 expansionFactor == Scale + 3 * signal.openness
                 noise == Sin(RoundDiv((t + i * 100) * AngleScale, Scale))
                 bob == Cos(RoundDiv((t + i * 100) * AngleScale, 2 * Scale))
             IN  <<RoundDiv(tx * expansionFactor, 100) + 4 * noise,
                   RoundDiv(ty * expansionFactor, 100) + 4 * bob,
                   RoundDiv(tz * expansionFactor, 100)>>
        ELSE <<tx * Fine,
               ty * Fine + Sin(WobbleAngle(t, WobbleSource(buffer, targetArray, idx))),
               tz * Fine>>

(* One pass of the body of the particle loop, for slot i, in place. *)
BlendSlot(buffer, targetArray, signal, t, i) ==
    LET idx == i * 3
        adjusted == AdjustedTarget(buffer, targetArray, signal, t, i)
    IN  [buffer EXCEPT ![idx]     = Lerp(buffer[idx], adjusted[1]),
                       ![idx + 1] = Lerp(buffer[idx + 1], adjusted[2]),
                       ![idx + 2] = Lerp(buffer[idx + 2], adjusted[3])]

RECURSIVE BlendFrom(_, _, _, _, _)
(* for (let i = ...; i < PARTICLE_COUNT; i++) *)
BlendFrom(buffer, targetArray, signal, t, i) ==
    IF i >= PARTICLE_COUNT THEN buffer
    ELSE BlendFrom(BlendSlot(buffer, targetArray, signal, t, i), targetArray, signal, t, i + 1)

(* THREE.MathUtils.lerp(rotation, position * 0.2, 0.1) *)
RotationLerp(current, position) == RoundDiv(45 * current + position, 50)

(* The callback past its guard: select, blend every slot, turn the group. *)
UseFrameBlend(t) ==
    /\ targetPositions' = SelectTarget(propState.gesture)
    /\ positions' = BlendFrom(positions, Formation(SelectTarget(propState.gesture)),
                              propState, t, 0)
    /\ rotation' = [x |-> RotationLerp(rotation.x, propState.position.y),
                    y |-> RotationLerp(rotation.y, propState.position.x)]
    /\ UNCHANGED skipped

UseFrameUnguarded(t) ==
    /\ time' = t
    /\ ticks' = ticks + 1
    /\ UseFrameBlend(t)
    /\ UNCHANGED <<pointsRef, targets>>
    /\ UNCHANGED <<detectVars, propState>>

(* The useFrame callback at clock time t. *)
UseFrame(t) ==
    /\ time' = t
    /\ ticks' = ticks + 1
    /\ IF pointsRef
       THEN UseFrameBlend(t)
       ELSE /\ skipped' = skipped + 1
            /\ UNCHANGED <<targetPositions, positions, rotation>>
    /\ UNCHANGED <<pointsRef, targets>>
    /\ UNCHANGED <<detectVars, propState>>

(* The <points> element is committed and its ref attached. *)
AttachPoints ==
    /\ ~pointsRef
    /\ pointsRef' = TRUE
    /\ UNCHANGED <<targets, positions, rotation, time, targetPositions, ticks, skipped>>
    /\ UNCHANGED <<detectVars, propState>>

----------------------------------------------------------------------------
(* How the canvas drawing can turn out, and the runs of Math.random. *)
Canvases == {"ok", "blank3", "noctx"}
Seeds == {1, 2}

(* The ticks of a run of the whole system. *)
MaxTicks == 3

(* The clock advances between two ticks, in 1/1000 s. *)
FrameTimes == {16, 700}

InitRender(canvases, seeds) ==
    /\ pointsRef = FALSE
    /\ \E canvas \in canvases, seed \in seeds : targets = Targets(canvas, seed)
    /\ positions = targets.sphere
    /\ rotation = [x |-> 0, y |-> 0]
    /\ time = 0
    /\ targetPositions = "none"
    /\ ticks = 0
    /\ skipped = 0

Init ==
    /\ mediaPipe = "pending"
    /\ loading = TRUE
    /\ effectLoading = TRUE
    /\ videoReady = FALSE
    /\ animationFrameId = TRUE
    /\ results = << >>
    /\ handState = InitialHandState
    /\ renderPending = FALSE
    /\ propState = InitialHandState
    /\ InitRender({"ok"}, {1})

Tick == ticks < MaxTicks /\ \E dt \in FrameTimes : UseFrame(time + dt)

Next ==
    \/ \E ok \in BOOLEAN : InitMediaPipe(ok)
    \/ VideoReady
    \/ \E frame \in Frames : Detect(frame)
    \/ \E frame \in Frames : DetectEffect(frame)
    \/ Render
    \/ AttachPoints
    \/ Tick

Spec == Init /\ [][Next]_vars

(* The classifier alone, over every frame of ClassifyFrames. *)
InitClassify ==
    /\ mediaPipe = "ready"
    /\ loading = FALSE
    /\ effectLoading = FALSE
    /\ videoReady = TRUE
    /\ animationFrameId = TRUE
    /\ results = << >>
    /\ handState = InitialHandState
    /\ renderPending = FALSE
    /\ propState = InitialHandState
    /\ InitRender({"ok"}, {1})

NextClassify == \E frame \in ClassifyFrames : Detect(frame)

SpecClassify == InitClassify /\ [][NextClassify]_vars

(* The blending engine alone: a glyph gesture is held and the sink is      *)
(* attached, and the tick runs again and again toward the same formation.  *)
MaxBlendTicks == 130

InitBlend ==
    /\ mediaPipe = "ready"
    /\ loading = FALSE
    /\ effectLoading = FALSE
    /\ videoReady = TRUE
    /\ animationFrameId = TRUE
    /\ \E hand \in {HandOne, HandTwo} :
          /\ results = <<hand>>
          /\ handState = AnalyzeGesture(hand)
          /\ propState = AnalyzeGesture(hand)
    /\ renderPending = FALSE
    /\ pointsRef = TRUE
    /\ \E canvas \in Canvases, seed \in Seeds : targets = Targets(canvas, seed)
    /\ positions = targets.sphere
    /\ rotation = [x |-> 0, y |-> 0]
    /\ time = 0
    /\ targetPositions = "none"
    /\ ticks = 0
    /\ skipped = 0

TickBlend == ticks < MaxBlendTicks /\ UseFrame(time + 16)

SpecBlend == InitBlend /\ [][TickBlend]_vars

(* The formation table over every way the canvas drawing and the random    *)
(* draws can turn out, under ticks and gesture changes: the detector is    *)
(* ready and hands over a hand with one finger up, one with two, or none.  *)
MaxFormationTicks == 2

InitFormations ==
    /\ mediaPipe = "ready"
    /\ loading = FALSE
    /\ effectLoading = FALSE
    /\ videoReady = TRUE
    /\ animationFrameId = TRUE
    /\ results = << >>
    /\ handState = InitialHandState
    /\ renderPending = FALSE
    /\ propState = InitialHandState
    /\ InitRender(Canvases, Seeds)

TickFormations == ticks < MaxFormationTicks /\ UseFrame(time + 16)

NextFormations ==
    \/ \E frame \in {<< >>, <<HandOne>>, <<HandTwo>>} : Detect(frame)
    \/ Render
    \/ AttachPoints
    \/ TickFormations

SpecFormations == InitFormations /\ [][NextFormations]_vars

----------------------------------------------------------------------------
(* Steps, as the properties below name them. *)

(* A step in which the useFrame callback ran. *)
TickStep == ticks' = ticks + 1

(* A step in which detect() ran on the frame the next state records. *)
DetectStep == Ready /\ (Detect(results') \/ DetectEffect(results'))

FingerPairs == {<<8, 6>>, <<12, 10>>, <<16, 14>>, <<20, 18>>}

UpFingers(landmarks) ==
    {pair \in FingerPairs : landmarks[pair[1]].y < landmarks[pair[2]].y}

(* C1: with a hand present, the published gesture is the one numbered by   *)
(* the count of the four non-thumb fingers whose tip y is strictly less    *)
(* than its PIP y; 0 gives NONE; the thumb plays no part and a tip level   *)
(* with its PIP is not up.                                                 *)
C1_GestureIsFingerCount ==
    Len(results) > 0 =>
        LET k == Cardinality(UpFingers(results[1]))
        IN  /\ k = 0 => handState.gesture = NONE
            /\ k = 1 => handState.gesture = ONE
            /\ k = 2 => handState.gesture = TWO
            /\ k = 3 => handState.gesture = THREE
            /\ k = 4 => handState.gesture = FOUR

(* A hand whose index tip is level with its PIP and whose other three      *)
(* fingers are up has been published as THREE.                             *)
C1_Witness ==
    /\ Len(results) > 0
    /\ results[1][8].y = results[1][6].y
    /\ results[1][12].y < results[1][10].y
    /\ results[1][16].y < results[1][14].y
    /\ results[1][20].y < results[1][18].y
    /\ handState.gesture = THREE

(* C2: a frame without a hand publishes gesture NONE and leaves openness   *)
(* and position as they were in the signal current before the frame.       *)
C2_NoHandRetains ==
    [][(DetectStep /\ results' = << >>) =>
          /\ handState'.gesture = NONE
          /\ handState'.openness = handState.openness
          /\ handState'.position = handState.position]_vars

(* A no-hand frame has followed a hand frame: the gesture is NONE and the  *)
(* openness and position are still those of the hand.                      *)
C2_Witness ==
    /\ results = << >>
    /\ handState.gesture = NONE
    /\ handState.openness = 600
    /\ handState.position = [x |-> 500, y |-> -500]

NearestToBlend(next, current, target) ==
    2 * Abs(100 * Fine * next - ((100 - LERP_SPEED) * Fine * current + LERP_SPEED * target))
        <= 100 * Fine

GlyphOfGesture(gesture) ==
    CASE gesture = ONE   -> targets.char1
      [] gesture = TWO   -> targets.char2
      [] gesture = THREE -> targets.char3
      [] OTHER           -> targets.char4

(* C4: in a tick with a glyph gesture every particle i moves 8% of the way *)
(* from its position before the tick to its adjusted target on each axis,  *)
(* as the buffer stores it: x and z toward the glyph's x and z of slot i,  *)
(* y toward the glyph's y plus the wobble of the particle's own x before   *)
(* the tick; nothing of another slot enters.                               *)
C4_GlyphTickBlendsEachSlot ==
    [][(TickStep /\ pointsRef /\ propState.gesture # NONE) =>
          \A i \in 0 .. PARTICLE_COUNT - 1 :
              LET glyph == GlyphOfGesture(propState.gesture)
                  wobble == Sin(WobbleAngle(time', positions[3 * i]))
              IN  /\ NearestToBlend(positions'[3 * i], positions[3 * i],
                                    Fine * glyph[3 * i])
                  /\ NearestToBlend(positions'[3 * i + 1], positions[3 * i + 1],
                                    Fine * glyph[3 * i + 1] + wobble)
                  /\ NearestToBlend(positions'[3 * i + 2], positions[3 * i + 2],
                                    Fine * glyph[3 * i + 2])]_vars

(* A tick has blended toward glyph 2 and moved the particles off the       *)
(* sphere they were seeded with.                                           *)
C4_Witness ==
    /\ targetPositions = "char2"
    /\ propState.gesture = TWO
    /\ \A j \in DOMAIN positions : positions[j] # targets.sphere[j]

(* The coordinates whose target is fixed while a glyph is held: x and z. *)
FixedAxes == {j \in 0 .. 3 * PARTICLE_COUNT - 1 : j % 3 # 1}

(* C5: repeating the blend toward a fixed target from a value that differs *)
(* from it, every step lands between the value before and the target       *)
(* (monotone, no overshoot), on the buffer value nearest to 8% of the      *)
(* remaining gap, moves while that 8% is at least half a buffer unit, and  *)
(* never lands on the target.                                              *)
C5_BlendApproachesNeverReaches ==
    [][TickStep =>
          \A j \in FixedAxes :
              LET target  == GlyphOfGesture(propState.gesture)[j]
                  current == positions[j]
                  next    == positions'[j]
              IN  /\ current <= target => (current <= next /\ next <= target)
                  /\ current >= target => (current >= next /\ next >= target)
                  /\ NearestToBlend(next, current, Fine * target)
                  /\ 2 * LERP_SPEED * Abs(target - current) > 100 => next # current
                  /\ current # target => next # target]_vars

(* After a hundred ticks toward glyph 2 a coordinate that started off its  *)
(* target is within a few buffer units of it and still not on it.          *)
C5_Witness ==
    /\ ticks >= 100
    /\ propState.gesture = TWO
    /\ \E j \in FixedAxes :
          /\ Abs(targets.sphere[j] - targets.char2[j]) > Scale
          /\ positions[j] # targets.char2[j]
          /\ Abs(positions[j] - targets.char2[j]) <= 6

C7_UnattachedTickIsNoOp ==
    [][TickStep =>
          /\ ~pointsRef => UNCHANGED <<positions, targets, rotation>>
          /\ (pointsRef /\ skipped = ticks) =>
                /\ positions = targets.sphere
                /\ rotation = [x |-> 0, y |-> 0]
                /\ positions' = BlendFrom(targets.sphere,
                                          Formation(SelectTarget(propState.gesture)),
                                          propState, time', 0)]_vars

(* Ticks fired before the sink was attached, and a tick after it has       *)
(* blended.                                                                *)
C7_Witness ==
    /\ skipped > 0
    /\ ticks > skipped
    /\ targetPositions # "none"
    /\ positions # targets.sphere

(* The indices the claim lists as required. *)
RequiredIndices == {0, 4, 6, 8, 10, 12, 14, 16, 18, 20}

InvalidInput(landmarks) ==
    \/ Cardinality(DOMAIN landmarks) # 21
    \/ \E i \in RequiredIndices : At(landmarks, i) = Undefined

(* C8: a landmark list of the wrong length, or with a required index       *)
(* missing, publishes no HandSignal: the signal stays the one published    *)
(* before the frame.                                                       *)
C8_InvalidInputPublishesNothing ==
    [][(DetectStep /\ Len(results') > 0 /\ InvalidInput(results'[1])) =>
          UNCHANGED <<handState, renderPending>>]_vars

(* C9: no error condition stops the loops: the detect callback is always   *)
(* registered for the next animation frame, or the detection effect is     *)
(* about to register it.                                                   *)
C9_DetectionLoopNeverStops ==
    animationFrameId \/ effectLoading # loading

ValidFrames == {frame \in Frames : Len(frame) > 0 /\ ~Throws(frame[1])}

(* The complete signals the frames of the model can publish. *)
PublishedSignals ==
    LET classified == {InitialHandState} \cup {AnalyzeGesture(frame[1]) : frame \in ValidFrames}
    IN  classified \cup {[signal EXCEPT !.gesture = NONE] : signal \in classified}

(* C10 as stated: the signal a blending tick reads is the most recently    *)
(* published one.                                                          *)
C10_TickReadsLatest ==
    [][(TickStep /\ pointsRef) => propState = handState]_vars

(* C10 as amended: the signal a tick reads is always one complete          *)
(* published signal, and it is the most recently published one whenever    *)
(* no state update is waiting for a render.                                *)
C10_TickReadsCompleteSignal ==
    /\ propState \in PublishedSignals
    /\ ~renderPending => propState = handState

(* A blending tick is due while the signal of the last render is a hand    *)
(* frame's and a newer hand frame's signal waits for its render.           *)
C10_Witness ==
    /\ pointsRef
    /\ ticks < MaxTicks
    /\ renderPending
    /\ propState.gesture = TWO
    /\ handState.gesture = ONE

(* The index set of a Float32Array of 3 * PARTICLE_COUNT coordinates. *)
Slots == 0 .. 3 * PARTICLE_COUNT - 1

(* C11: the sphere, each of the four glyph formations (the all-zero        *)
(* fallback of a missing canvas context or of a glyph without a filled     *)
(* pixel included) and the particle buffer hold exactly 3 * PARTICLE_COUNT *)
(* coordinates in every reachable state, so slot i exists in each of them  *)
(* for every particle i.                                                   *)
C11_FormationLengths ==
    /\ DOMAIN targets.sphere = Slots
    /\ DOMAIN targets.char1 = Slots
    /\ DOMAIN targets.char2 = Slots
    /\ DOMAIN targets.char3 = Slots
    /\ DOMAIN targets.char4 = Slots
    /\ DOMAIN positions = Slots
    /\ Cardinality(DOMAIN positions) = 3 * PARTICLE_COUNT

(* Without a canvas context every glyph is the all-zero buffer; two ticks  *)
(* have run, the last one blending toward glyph 2 after a gesture change.  *)
C11_Witness ==
    /\ \A j \in DOMAIN targets.char2 : targets.char2[j] = 0
    /\ \A j \in DOMAIN targets.char3 : targets.char3[j] = 0
    /\ ticks = MaxFormationTicks
    /\ skipped = 0
    /\ targetPositions = "char2"
    /\ positions # targets.sphere

====
